---------------------------- MODULE Spec2Model ----------------------------
(***************************************************************************)
(* Model of battlemap_generator.py: the prompt parser, the configuration   *)
(* selector and the generate_battlemap pipeline that drives the toolkit's  *)
(* coarse, populate and export child processes.                            *)
(*                                                                         *)
(* Python strings are sequences of one-character strings, so that lower(), *)
(* replace(), the "in" substring test and str(int) are computed rather     *)
(* than assumed.  Python's None is the value None below.                   *)
(***************************************************************************)
EXTENDS Integers, Sequences, FiniteSets, TLC

VARIABLES
    pc,                 \* position of the current call
    prompt,             \* argument prompt
    scene_name,         \* argument / derived scene name
    scene_scale_factor, \* argument, in tenths
    parsed_elements,    \* result of parse_prompt
    plan,               \* (generator_module, gin_files, override_params)
    seed,               \* seed chosen by generate_battlemap
    running,            \* child processes alive right now
    launched,           \* child processes launched by the current call, in order
    exit_status,        \* how the last child process ended
    export_files,       \* files under the export directory after the export
    fs_dirs,            \* directories existing on disk
    config_files,       \* content of the template files on disk
    fresh_dir,          \* whether this call's scene directory was absent at its start
    result,             \* what the call returned (or that it raised)
    runs                \* number of calls started

vars == <<pc, prompt, scene_name, scene_scale_factor, parsed_elements, plan,
          seed, running, launched, exit_status, export_files, fs_dirs,
          config_files, fresh_dir, result, runs>>

-----------------------------------------------------------------------------
(* Bounds *)

MaxFragments == 3       \* fragments concatenated into a prompt (parser checks)
MaxScale == 12          \* largest scene_scale_factor, in tenths
MaxRuns == 2            \* calls of generate_battlemap in one behaviour
MaxFiles == 4           \* files under the export directory (search checks)

-----------------------------------------------------------------------------
(* Python values and string operations *)

None == <<"None">>      \* not a string: its element is no single character

UpperChars == <<"A","B","C","D","E","F","G","H","I","J","K","L","M",
                "N","O","P","Q","R","S","T","U","V","W","X","Y","Z">>
LowerChars == <<"a","b","c","d","e","f","g","h","i","j","k","l","m",
                "n","o","p","q","r","s","t","u","v","w","x","y","z">>

lower_char(c) ==
    IF \E i \in 1..26 : UpperChars[i] = c
    THEN LowerChars[CHOOSE i \in 1..26 : UpperChars[i] = c]
    ELSE c

\* str.lower()
lower(s) == [i \in 1..Len(s) |-> lower_char(s[i])]

\* sub in s
contains(s, sub) ==
    \E i \in 0..(Len(s) - Len(sub)) : SubSeq(s, i + 1, i + Len(sub)) = sub

\* s.replace(old, new) for a one-character old
RECURSIVE replace(_, _, _)
replace(s, old, new) ==
    IF s = <<>> THEN <<>>
    ELSE (IF Head(s) = old THEN new ELSE <<Head(s)>>) \o replace(Tail(s), old, new)

Digits == <<"0","1","2","3","4","5","6","7","8","9">>

\* str(n) for n >= 0
RECURSIVE str(_)
str(n) == IF n < 10 THEN <<Digits[n + 1]>>
          ELSE str(n \div 10) \o <<Digits[(n % 10) + 1]>>

\* random.randint(a, b): an integer N with a <= N <= b.  The model draws the
\* two ends of that range.
randint_beyond(a, b) == {a, b + 1}
randint(a, b) == {a, b}

-----------------------------------------------------------------------------
(* parse_prompt *)

FOREST == <<"f","o","r","e","s","t">>
CAVE == <<"c","a","v","e">>
MOUNTAIN == <<"m","o","u","n","t","a","i","n">>

parse_prompt_forest_wins(p) ==
    [primary_biome |->
        IF contains(lower(p), FOREST) THEN "forest"
        ELSE IF contains(lower(p), MOUNTAIN) THEN "mountain"
        ELSE "generic",
     secondary_features |->
        IF contains(lower(p), CAVE) THEN <<"cave">> ELSE <<>>,
     style |-> "dnd_fantasy"]

parse_prompt_case_sensitive(p) ==
    [primary_biome |->
        IF contains(p, MOUNTAIN) THEN "mountain"
        ELSE IF contains(p, FOREST) THEN "forest"
        ELSE "generic",
     secondary_features |->
        IF contains(p, CAVE) THEN <<"cave">> ELSE <<>>,
     style |-> "dnd_fantasy"]

parse_prompt(p) ==
    LET parsed0 == [primary_biome |-> "generic", secondary_features |-> <<>>,
                    style |-> "dnd_fantasy"]
        parsed1 == IF contains(lower(p), FOREST)
                   THEN [parsed0 EXCEPT !.primary_biome = "forest"]
                   ELSE parsed0
        parsed2 == IF contains(lower(p), CAVE)
                   THEN [parsed1 EXCEPT !.secondary_features = Append(@, "cave")]
                   ELSE parsed1
        parsed3 == IF contains(lower(p), MOUNTAIN)
                   THEN [parsed2 EXCEPT !.primary_biome = "mountain"]
                   ELSE parsed2
    IN  parsed3


-----------------------------------------------------------------------------
(* select_infinigen_config *)

\* dict.get(key, default); a dict is a function on its keys
get(d, key, default) == IF key \in DOMAIN d THEN d[key] ELSE default

EmptyDict == [k \in {} |-> <<>>]

\* One "-p" override, "key=value": the text before the "=" and the text after
E(k, v) == [key |-> k, val |-> v]

\* p.startswith(prefix), for a prefix that is the whole text before the "="
\* of every override it begins
startswith(p, prefix) == p.key = prefix

\* x in list
in_list(x, list) == \E i \in 1..Len(list) : list[i] = x

\* [p for p in list if not p.startswith(prefix)]
RECURSIVE without_prefix(_, _)
without_prefix(list, prefix) ==
    IF list = <<>> THEN <<>>
    ELSE (IF startswith(Head(list), prefix) THEN <<>> ELSE <<Head(list)>>)
         \o without_prefix(Tail(list), prefix)

\* Numbers with a fractional part are counted in hundredths: a scale factor is
\* a number of tenths and the three base values are numbers of tenths, so
\* that base * scale is exact.  (Python multiplies two binary doubles; the
\* text it prints is the shortest that reads back as that product.)
HEIGHT_BASE == 500
COVERAGE_BASE == 2
SLOPE_HEIGHT_BASE == 100

\* f"{x}" for a float x >= 0 given in hundredths: "5.0", "0.02", "12.5"
format_float(h) ==
    LET f == h % 100
    IN  str(h \div 100) \o <<".">> \o
        (IF f % 10 = 0 THEN <<Digits[(f \div 10) + 1]>>
         ELSE <<Digits[(f \div 10) + 1], Digits[(f % 10) + 1]>>)

base_override_params_unscaled_coverage(params, scale) == <<
        E("compose_nature.trees_chance", get(params, "trees_chance", <<"0",".","4">>)),
        E("compose_nature.bushes_chance", get(params, "bushes_chance", <<"0",".","3">>)),
        E("compose_nature.ground_leaves_chance", get(params, "ground_leaves_chance", <<"0",".","4">>)),
        E("compose_nature.grass_chance", get(params, "grass_chance", <<"0",".","3">>)),
        E("compose_nature.ferns_chance", get(params, "ferns_chance", <<"0",".","1">>)),
        E("compose_nature.flowers_chance", get(params, "flowers_chance", <<"0",".","0","5">>)),
        E("compose_nature.rocks_chance", get(params, "rocks_chance", <<"0",".","0","2">>)),
        E("compose_nature.boulders_chance", get(params, "boulders_chance", <<"0",".","0","2">>)),
        E("compose_nature.monocots_chance", get(params, "monocots_chance", <<"0",".","0","1">>)),
        E("compose_nature.terrain_enabled", <<"T","r","u","e">>),
        E("compose_nature.coarse_terrain_enabled", <<"T","r","u","e">>),
        E("compose_nature.terrain_surface_enabled", <<"T","r","u","e">>),
        E("compose_nature.atmosphere_chance", get(params, "atmosphere_chance", <<"0",".","0">>)),
        E("compose_nature.volumetric_clouds_chance", get(params, "volumetric_clouds_chance", <<"0",".","0">>)),
        E("compose_nature.wind_chance", get(params, "wind_chance", <<"0",".","0">>)),
        E("compose_nature.turbulence_chance", get(params, "turbulence_chance", <<"0",".","0">>)),
        E("compose_nature.rain_particles_chance", get(params, "rain_particles_chance", <<"0",".","0">>)),
        E("compose_nature.leaf_particles_chance", get(params, "leaf_particles_chance", <<"0",".","0">>)),
        E("scene.caves_chance", <<"0",".","0">>),
        E("Caves.n_lattice", <<"0">>),
        E("run_erosion.n_iters", <<"[","0",",","0","]">>),
        E("ant_landscape_asset.snowfall", <<"0">>),
        E("multi_mountains_asset.snowfall", <<"0">>),
        E("coast_asset.snowfall", <<"0">>),
        E("get_land_process.snowfall_enabled", <<"0">>),
        E("populate_scene.snow_layer_chance", <<"0">>),
        E("multi_mountains_params.height", format_float(HEIGHT_BASE * scale)),
        E("multi_mountains_params.coverage", format_float(COVERAGE_BASE * 10)),
        E("multi_mountains_params.slope_height", format_float(SLOPE_HEIGHT_BASE * scale)),
        E("multi_mountains_asset.erosion", <<"F","a","l","s","e">>),
        E("multi_mountains_asset.snowfall", <<"F","a","l","s","e">>),
        E("compose_nature.inview_distance", <<"5">>),
        E("placement.populate_all.dist_cull", <<"5">>),
        E("compose_nature.near_distance", <<"1">>),
        E("compose_nature.center_distance", <<"2">>)
    >>

\* lines 60-118
base_override_params(params, scale) == <<
        E("compose_nature.trees_chance", get(params, "trees_chance", <<"0",".","4">>)),
        E("compose_nature.bushes_chance", get(params, "bushes_chance", <<"0",".","3">>)),
        E("compose_nature.ground_leaves_chance", get(params, "ground_leaves_chance", <<"0",".","4">>)),
        E("compose_nature.grass_chance", get(params, "grass_chance", <<"0",".","3">>)),
        E("compose_nature.ferns_chance", get(params, "ferns_chance", <<"0",".","1">>)),
        E("compose_nature.flowers_chance", get(params, "flowers_chance", <<"0",".","0","5">>)),
        E("compose_nature.rocks_chance", get(params, "rocks_chance", <<"0",".","0","2">>)),
        E("compose_nature.boulders_chance", get(params, "boulders_chance", <<"0",".","0","2">>)),
        E("compose_nature.monocots_chance", get(params, "monocots_chance", <<"0",".","0","1">>)),
        E("compose_nature.terrain_enabled", <<"T","r","u","e">>),
        E("compose_nature.coarse_terrain_enabled", <<"T","r","u","e">>),
        E("compose_nature.terrain_surface_enabled", <<"T","r","u","e">>),
        E("compose_nature.atmosphere_chance", get(params, "atmosphere_chance", <<"0",".","0">>)),
        E("compose_nature.volumetric_clouds_chance", get(params, "volumetric_clouds_chance", <<"0",".","0">>)),
        E("compose_nature.wind_chance", get(params, "wind_chance", <<"0",".","0">>)),
        E("compose_nature.turbulence_chance", get(params, "turbulence_chance", <<"0",".","0">>)),
        E("compose_nature.rain_particles_chance", get(params, "rain_particles_chance", <<"0",".","0">>)),
        E("compose_nature.leaf_particles_chance", get(params, "leaf_particles_chance", <<"0",".","0">>)),
        E("scene.caves_chance", <<"0",".","0">>),
        E("Caves.n_lattice", <<"0">>),
        E("run_erosion.n_iters", <<"[","0",",","0","]">>),
        E("ant_landscape_asset.snowfall", <<"0">>),
        E("multi_mountains_asset.snowfall", <<"0">>),
        E("coast_asset.snowfall", <<"0">>),
        E("get_land_process.snowfall_enabled", <<"0">>),
        E("populate_scene.snow_layer_chance", <<"0">>),
        E("multi_mountains_params.height", format_float(HEIGHT_BASE * scale)),
        E("multi_mountains_params.coverage", format_float(COVERAGE_BASE * scale)),
        E("multi_mountains_params.slope_height", format_float(SLOPE_HEIGHT_BASE * scale)),
        E("multi_mountains_asset.erosion", <<"F","a","l","s","e">>),
        E("multi_mountains_asset.snowfall", <<"F","a","l","s","e">>),
        E("compose_nature.inview_distance", <<"5">>),
        E("placement.populate_all.dist_cull", <<"5">>),
        E("compose_nature.near_distance", <<"1">>),
        E("compose_nature.center_distance", <<"2">>)
    >>

select_infinigen_config_cave_for_any_biome(parsed_prompt, scale) ==
    LET biome == get(parsed_prompt, "primary_biome", None)
        params == get(parsed_prompt, "generation_params", EmptyDict)
        override_params0 == base_override_params(params, scale)
        kept == without_prefix(without_prefix(override_params0, "scene.caves_chance"),
                               "Caves.on_the_fly_instances")
    IN  [generator_module |-> "infinigen_examples.generate_nature",
         gin_files |-> IF biome = "desert"
                       THEN <<"desert_template.gin">>
                       ELSE <<"forest_template.gin">>,
         override_params |->
            IF in_list("cave", get(parsed_prompt, "secondary_features", <<>>))
            THEN kept \o <<E("scene.caves_chance", <<"1",".","0">>),
                           E("Caves.n_lattice", <<"1">>),
                           E("Caves.frequency", <<"0",".","1">>),
                           E("Caves.randomness", <<"0",".","0">>)>>
            ELSE override_params0]

\* lines 41-142; the result tuple is a record
select_infinigen_config(parsed_prompt, scale) ==
    LET biome == get(parsed_prompt, "primary_biome", None)
        params == get(parsed_prompt, "generation_params", EmptyDict)
        override_params0 == base_override_params(params, scale)
        forest_cave == /\ biome = "forest"
                       /\ in_list("cave", get(parsed_prompt, "secondary_features", <<>>))
        kept == without_prefix(without_prefix(override_params0, "scene.caves_chance"),
                               "Caves.on_the_fly_instances")
    IN  [generator_module |-> "infinigen_examples.generate_nature",
         gin_files |-> IF biome = "desert"
                       THEN <<"desert_template.gin">>
                       ELSE <<"forest_template.gin">>,
         override_params |->
            IF forest_cave
            THEN kept \o <<E("scene.caves_chance", <<"1",".","0">>),
                           E("Caves.n_lattice", <<"1">>),
                           E("Caves.frequency", <<"0",".","1">>),
                           E("Caves.randomness", <<"0",".","0">>)>>
            ELSE override_params0]

-----------------------------------------------------------------------------
(* Paths and the file system *)

OUTPUT_DIR_BASE == "generated_battlemaps"

\* A path: the root it is resolved against, the directory under it, the
\* scene's directory, the directory inside that, and the components below
Path(root, base, scene, leaf, rel) ==
    [root |-> root, base |-> base, scene |-> scene, leaf |-> leaf, rel |-> rel]

NoPath == Path("", "", <<>>, "", <<>>)

scene_dir(name) == Path("cwd", OUTPUT_DIR_BASE, name, "", <<>>)
raw_folder(name) == Path("cwd", OUTPUT_DIR_BASE, name, "infinigen_raw", <<>>)
export_dir(name) == Path("INFINIGEN_PATH", OUTPUT_DIR_BASE, name, "exported_scene", <<>>)
project_configs_dir == Path("cwd", "infinigen_configs", <<>>, "", <<>>)
infinigen_search_dir ==
    Path("INFINIGEN_PATH", "infinigen_examples/configs_nature", <<>>, "", <<>>)

\* os.makedirs(p, exist_ok=True): p and the directories above it
makedirs(dirs, p) ==
    dirs \cup {p, [p EXCEPT !.leaf = ""], [p EXCEPT !.leaf = "", !.scene = <<>>]}

\* A file or directory name, split at its last dot
F(name, ext) == [name |-> name, ext |-> ext]

\* The content of a template file
Absent == <<"absent">>
dummy_gin(gin_file) == <<"# Minimal dummy GIN config for ", gin_file>>

RECURSIVE stage_gin_files_always_placeholder(_, _)
stage_gin_files_always_placeholder(cf, gin_files) ==
    IF gin_files = <<>> THEN cf
    ELSE LET g == Head(gin_files)
         IN  stage_gin_files_always_placeholder(
                 [local |-> [cf.local EXCEPT ![g] = dummy_gin(g)],
                  search |-> [cf.search EXCEPT ![g] = dummy_gin(g)]],
                 Tail(gin_files))

\* lines 384-396: write the placeholder if there is no local copy, then copy
\* the local copy into the toolkit's search directory
RECURSIVE stage_gin_files(_, _)
stage_gin_files(cf, gin_files) ==
    IF gin_files = <<>> THEN cf
    ELSE LET g == Head(gin_files)
             local == IF cf.local[g] = Absent THEN dummy_gin(g) ELSE cf.local[g]
         IN  stage_gin_files([local |-> [cf.local EXCEPT ![g] = local],
                              search |-> [cf.search EXCEPT ![g] = local]],
                             Tail(gin_files))

-----------------------------------------------------------------------------
(* run_infinigen_export: the search for the exported file *)

USD_EXTENSIONS == {".usd", ".usda", ".usdc"}

is_prefix(dir, f) == Len(f) >= Len(dir) /\ SubSeq(f, 1, Len(dir)) = dir

\* os.path.exists, os.path.isdir and os.listdir below the export directory,
\* whose content is the set of its files (each a sequence of names)
exists(files, rel) == \E f \in files : is_prefix(rel, f)
isdir(files, rel) == \E f \in files : is_prefix(rel, f) /\ Len(f) > Len(rel)
listdir(files, rel) ==
    {f[Len(rel) + 1] : f \in {g \in files : is_prefix(rel, g) /\ Len(g) > Len(rel)}}

EXPORT_SCENE_BLEND == F("export_scene", ".blend")
EXPORT_SCENE_USDC == F("export_scene", ".usdc")
SCENE_USDC == F("scene", ".usdc")

\* lines 311-316: os.walk visits a directory's files before its
\* subdirectories, both in no particular order
RECURSIVE walk(_, _)
walk(files, dir) ==
    LET here == {f \in files : /\ is_prefix(dir, f)
                               /\ Len(f) = Len(dir) + 1
                               /\ f[Len(f)].ext \in USD_EXTENSIONS}
        subdirs == {x \in listdir(files, dir) : isdir(files, Append(dir, x))}
    IN  IF here # {} THEN here
        ELSE UNION {walk(files, Append(dir, x)) : x \in subdirs}

locate_export_scene_before_scene(files) ==
    LET blend_dirs == {x \in listdir(files, <<>>) :
                          isdir(files, <<x>>) /\ x.ext = ".blend"}
        nested(x) == IF exists(files, <<x, EXPORT_SCENE_USDC>>)
                     THEN {<<x, EXPORT_SCENE_USDC>>}
                     ELSE IF exists(files, <<x, SCENE_USDC>>)
                     THEN {<<x, SCENE_USDC>>}
                     ELSE {}
        blend_hits == UNION {nested(x) : x \in blend_dirs}
    IN  IF exists(files, <<EXPORT_SCENE_BLEND, EXPORT_SCENE_USDC>>)
        THEN {<<EXPORT_SCENE_BLEND, EXPORT_SCENE_USDC>>}
        ELSE IF exists(files, <<EXPORT_SCENE_USDC>>) THEN {<<EXPORT_SCENE_USDC>>}
        ELSE IF exists(files, <<SCENE_USDC>>) THEN {<<SCENE_USDC>>}
        ELSE IF blend_hits # {} THEN blend_hits
        ELSE IF walk(files, <<>>) # {} THEN walk(files, <<>>)
        ELSE {<<>>}

\* lines 263-319: the paths, below the export directory, that the search can
\* return; <<>> is the export directory itself
locate(files) ==
    LET blend_dirs == {x \in listdir(files, <<>>) :
                          isdir(files, <<x>>) /\ x.ext = ".blend"}
        nested(x) == IF exists(files, <<x, EXPORT_SCENE_USDC>>)
                     THEN {<<x, EXPORT_SCENE_USDC>>}
                     ELSE IF exists(files, <<x, SCENE_USDC>>)
                     THEN {<<x, SCENE_USDC>>}
                     ELSE {}
        blend_hits == UNION {nested(x) : x \in blend_dirs}
    IN  IF exists(files, <<EXPORT_SCENE_BLEND, EXPORT_SCENE_USDC>>)
        THEN {<<EXPORT_SCENE_BLEND, EXPORT_SCENE_USDC>>}
        ELSE IF exists(files, <<SCENE_USDC>>) THEN {<<SCENE_USDC>>}
        ELSE IF exists(files, <<EXPORT_SCENE_USDC>>) THEN {<<EXPORT_SCENE_USDC>>}
        ELSE IF blend_hits # {} THEN blend_hits
        ELSE IF walk(files, <<>>) # {} THEN walk(files, <<>>)
        ELSE {<<>>}

-----------------------------------------------------------------------------
(* generate_battlemap and the stages it calls *)

\* What a call of generate_battlemap gives its caller
Pending == [kind |-> "pending", path |-> NoPath]
ReturnedNone == [kind |-> "None", path |-> NoPath]
Raised == [kind |-> "raised", path |-> NoPath]
Returned(path) == [kind |-> "path", path |-> path]

NoParsed == [primary_biome |-> "", secondary_features |-> <<>>, style |-> ""]
NoPlan == [generator_module |-> "", gin_files |-> <<>>, override_params |-> <<>>]

\* A child process: the command line subprocess.run is given
Child(task, module, input_folder, output_folder, sd, gin_files, override_params) ==
    [task |-> task, module |-> module, input_folder |-> input_folder,
     output_folder |-> output_folder, seed |-> sd, gin_files |-> gin_files,
     override_params |-> override_params]

TOOLKIT_TASKS == {"coarse", "populate", "export"}

\* line 358
derived_scene_name(p, suffix) ==
    replace(replace(lower(p), " ", <<"_">>), "'", <<>>) \o <<"_">> \o str(suffix)

run_infinigen_export_none_on_miss(name, files) ==
    {IF r = <<>> THEN ReturnedNone ELSE Returned([export_dir(name) EXCEPT !.rel = r]) :
        r \in locate(files)}

\* lines 263-319 and 417-420: what run_infinigen_export returns after a
\* successful export, which post_process_scene hands back unchanged
run_infinigen_export_returns(name, files) ==
    {Returned([export_dir(name) EXCEPT !.rel = r]) : r \in locate(files)}

\* subprocess.run(...): the child starts and the caller blocks until it ends
Launch(child) ==
    /\ launched' = Append(launched, child)
    /\ exit_status' = Append(exit_status, "running")
    /\ running' = running \cup {Len(launched) + 1}

\* the child the caller is blocked on has ended
Waited == launched # <<>> /\ exit_status[Len(exit_status)] # "running"
last_status == exit_status[Len(exit_status)]

\* except ...: return None (lines 422-439)
ReturnNone ==
    /\ result' = ReturnedNone
    /\ pc' = "returned"

inputs == <<prompt, scene_scale_factor, scene_name, parsed_elements, runs>>
children == <<running, launched, exit_status>>
disk == <<fs_dirs, config_files, fresh_dir>>

\* Inputs of the calls
PROMPT_FOREST == <<"a"," ","F","o","r","e","s","t">>
PROMPT_FOREST_CAVE == <<"O","r","c","'","s"," ","f","o","r","e","s","t"," ","c","a","v","e">>
Prompts == {PROMPT_FOREST, PROMPT_FOREST_CAVE, None}
SceneNames == {None, <<>>, <<"m","a","p">>}
ScaleFactors == {1, 10}

README_TXT == F("README", ".txt")
ExportLayouts ==
    {{},
     {<<README_TXT>>},
     {<<EXPORT_SCENE_BLEND, EXPORT_SCENE_USDC>>, <<README_TXT>>},
     {<<F("textures", ""), F("mesh", ".usda")>>, <<F("skip", ".usdz")>>},
     {<<F("a", ".blend"), SCENE_USDC>>, <<F("b", ".blend"), EXPORT_SCENE_USDC>>}}

\* lines 350-364: the scene name and parse_prompt, before the try
Call(p, name, scale) ==
    /\ pc \in {"idle", "returned"}
    /\ runs < MaxRuns
    /\ runs' = runs + 1
    /\ prompt' = p
    /\ scene_scale_factor' = scale
    /\ plan' = NoPlan
    /\ seed' = {}
    /\ running' = {}
    /\ launched' = <<>>
    /\ exit_status' = <<>>
    /\ export_files' = {}
    /\ fresh_dir' = FALSE
    /\ UNCHANGED <<fs_dirs, config_files>>
    /\ IF p = None
       THEN \* prompt.lower() raises AttributeError, at line 358 or at line 32
            /\ scene_name' = name
            /\ parsed_elements' = NoParsed
            /\ result' = Raised
            /\ pc' = "returned"
       ELSE /\ \E suffix \in randint(1000, 9999) :
                  scene_name' = IF name \in {None, <<>>}
                                THEN derived_scene_name(p, suffix)
                                ELSE name
            /\ parsed_elements' = parse_prompt(p)
            /\ result' = Pending
            /\ pc' = "select"

\* lines 373-396: the plan, the seed, the scene directory and the staging of
\* the template files; an OSError of the first makedirs ends the call
SelectAndStage(io_ok) ==
    /\ pc = "select"
    /\ LET config == select_infinigen_config(parsed_elements, scene_scale_factor)
       IN  /\ plan' = config
           /\ \E sd \in randint(0, 100000) : seed' = {sd}
           /\ IF io_ok
              THEN /\ fresh_dir' = (scene_dir(scene_name) \notin fs_dirs)
                   /\ fs_dirs' = makedirs(makedirs(makedirs(fs_dirs,
                                     scene_dir(scene_name)),
                                     project_configs_dir), infinigen_search_dir)
                   /\ config_files' = stage_gin_files(config_files, config.gin_files)
                   /\ pc' = "generate"
                   /\ UNCHANGED result
              ELSE /\ ReturnNone
                   /\ UNCHANGED disk
    /\ UNCHANGED <<inputs, children, export_files>>

\* lines 149-172: the raw output folder and the coarse child process
StartGeneration(io_ok) ==
    /\ pc = "generate"
    /\ IF io_ok
       THEN /\ fs_dirs' = makedirs(fs_dirs, raw_folder(scene_name))
            /\ Launch(Child("coarse", plan.generator_module, NoPath,
                            raw_folder(scene_name), seed, plan.gin_files,
                            plan.override_params))
            /\ pc' = "coarse"
            /\ UNCHANGED result
       ELSE /\ ReturnNone
            /\ UNCHANGED <<children, fs_dirs>>
    /\ UNCHANGED <<inputs, plan, seed, export_files, config_files, fresh_dir>>

\* A child process ends: exit status zero, exit status non-zero, or (where
\* subprocess.run is given a timeout) killed when the timeout expires.  The
\* export leaves some layout of files in the export directory.
ChildExit(i, status) ==
    /\ i \in running
    /\ status \in {"ok", "nonzero"} \/ (status = "timeout" /\ launched[i].task # "ls")
    /\ running' = running \ {i}
    /\ exit_status' = [exit_status EXCEPT ![i] = status]
    /\ IF launched[i].task = "export" /\ status = "ok"
       THEN export_files' \in ExportLayouts
       ELSE UNCHANGED export_files
    /\ UNCHANGED <<inputs, plan, seed, launched, disk, result, pc>>

AfterCoarse_unchecked ==
    /\ pc = "coarse"
    /\ Waited
    /\ Launch(Child("populate", plan.generator_module, raw_folder(scene_name),
                    raw_folder(scene_name), seed, plan.gin_files,
                    plan.override_params))
    /\ pc' = "populate"
    /\ UNCHANGED <<inputs, plan, seed, export_files, disk, result>>

AfterCoarse_no_wait ==
    /\ pc = "coarse"
    /\ IF last_status \in {"ok", "running"}
       THEN /\ Launch(Child("populate", plan.generator_module, raw_folder(scene_name),
                            raw_folder(scene_name), seed, plan.gin_files,
                            plan.override_params))
            /\ pc' = "populate"
            /\ UNCHANGED result
       ELSE /\ ReturnNone
            /\ UNCHANGED children
    /\ UNCHANGED <<inputs, plan, seed, export_files, disk>>

AfterCoarse_populate_elsewhere ==
    /\ pc = "coarse"
    /\ Waited
    /\ IF last_status = "ok"
       THEN /\ \E sd \in randint(0, 100000) :
                  Launch(Child("populate", plan.generator_module, NoPath,
                               raw_folder(scene_name), {sd}, plan.gin_files,
                               plan.override_params))
            /\ pc' = "populate"
            /\ UNCHANGED result
       ELSE /\ ReturnNone
            /\ UNCHANGED children
    /\ UNCHANGED <<inputs, plan, seed, export_files, disk>>

\* lines 172-204: the coarse child has ended; on success the populate child
\* is started, otherwise the exception reaches generate_battlemap's handlers
AfterCoarse ==
    /\ pc = "coarse"
    /\ Waited
    /\ IF last_status = "ok"
       THEN /\ Launch(Child("populate", plan.generator_module, raw_folder(scene_name),
                            raw_folder(scene_name), seed, plan.gin_files,
                            plan.override_params))
            /\ pc' = "populate"
            /\ UNCHANGED result
       ELSE /\ ReturnNone
            /\ UNCHANGED children
    /\ UNCHANGED <<inputs, plan, seed, export_files, disk>>

\* lines 204-249: the populate child has ended; on success the export
\* directory is made and the export child is started
AfterPopulate(io_ok) ==
    /\ pc = "populate"
    /\ Waited
    /\ IF last_status = "ok" /\ io_ok
       THEN /\ fs_dirs' = makedirs(fs_dirs, export_dir(scene_name))
            /\ Launch(Child("export", "infinigen.tools.export", raw_folder(scene_name),
                            export_dir(scene_name), {}, <<>>, <<>>))
            /\ pc' = "export"
            /\ UNCHANGED result
       ELSE /\ ReturnNone
            /\ UNCHANGED <<children, fs_dirs>>
    /\ UNCHANGED <<inputs, plan, seed, export_files, config_files, fresh_dir>>

\* lines 249-256: the export child has ended; on success "ls -la" is run on
\* the export directory
AfterExport ==
    /\ pc = "export"
    /\ Waited
    /\ IF last_status = "ok"
       THEN /\ Launch(Child("ls", "ls", export_dir(scene_name), NoPath, {}, <<>>, <<>>))
            /\ pc' = "ls"
            /\ UNCHANGED result
       ELSE /\ ReturnNone
            /\ UNCHANGED children
    /\ UNCHANGED <<inputs, plan, seed, export_files, disk>>

\* lines 257-319 and 410-420: whatever "ls" did, the exported file is
\* searched for, post_process_scene is applied and the path is returned
AfterLs ==
    /\ pc = "ls"
    /\ Waited
    /\ result' \in run_infinigen_export_returns(scene_name, export_files)
    /\ pc' = "returned"
    /\ UNCHANGED <<inputs, plan, seed, children, export_files, disk>>

GinFiles == {"forest_template.gin", "desert_template.gin"}

InitConfigFiles ==
    {[local |-> [g \in GinFiles |-> IF g = "forest_template.gin" THEN l ELSE Absent],
      search |-> [g \in GinFiles |-> IF g = "forest_template.gin" THEN t ELSE Absent]] :
        l \in {Absent, <<"real">>}, t \in {Absent, <<"stale">>}}

InitRest ==
    /\ scene_name = None
    /\ plan = NoPlan
    /\ seed = {}
    /\ running = {}
    /\ launched = <<>>
    /\ exit_status = <<>>
    /\ export_files = {}
    /\ fs_dirs = {}
    /\ fresh_dir = FALSE
    /\ result = Pending
    /\ runs = 0

Init ==
    /\ pc = "idle"
    /\ prompt = None
    /\ scene_scale_factor = 1
    /\ parsed_elements = NoParsed
    /\ config_files \in InitConfigFiles
    /\ InitRest

Next ==
    \/ \E p \in Prompts, name \in SceneNames, scale \in ScaleFactors : Call(p, name, scale)
    \/ \E io_ok \in BOOLEAN : SelectAndStage(io_ok)
    \/ \E io_ok \in BOOLEAN : StartGeneration(io_ok)
    \/ \E i \in running, status \in {"ok", "nonzero", "timeout"} : ChildExit(i, status)
    \/ AfterCoarse
    \/ \E io_ok \in BOOLEAN : AfterPopulate(io_ok)
    \/ AfterExport
    \/ AfterLs

Spec == Init /\ [][Next]_vars

-----------------------------------------------------------------------------
(* parse_prompt applied to every prompt made of a few fragments *)

Fragments ==
    {FOREST, <<"F","o","r","E","S","T">>, <<"f","o","r","e">>, <<"s","t">>,
     CAVE, <<"C","A","V","E">>, <<"c","a">>, <<"v","e">>,
     MOUNTAIN, <<"M","o","u","n","t">>, <<"a","i","n">>, <<" ">>}

RECURSIVE Concatenations(_)
Concatenations(n) ==
    IF n = 0 THEN {<<>>}
    ELSE Concatenations(n - 1) \cup
         {s \o f : s \in Concatenations(n - 1), f \in Fragments}

ParsePrompts == Concatenations(MaxFragments)

InitParse ==
    /\ pc = "parse"
    /\ prompt \in ParsePrompts
    /\ scene_scale_factor = 1
    /\ parsed_elements = NoParsed
    /\ config_files = [local |-> [g \in GinFiles |-> Absent],
                       search |-> [g \in GinFiles |-> Absent]]
    /\ InitRest

ApplyParse ==
    /\ pc = "parse"
    /\ parsed_elements' = parse_prompt(prompt)
    /\ pc' = "parsed"
    /\ UNCHANGED <<prompt, scene_name, scene_scale_factor, plan, seed, children,
                   export_files, disk, result, runs>>

NextParse == ApplyParse

SpecParse == InitParse /\ [][NextParse]_vars

-----------------------------------------------------------------------------
(* select_infinigen_config applied to every descriptor and scale factor *)

Biomes == {"generic", "forest", "mountain", "desert"}
FeatureLists == {<<>>, <<"cave">>, <<"river">>, <<"river", "cave">>, <<"cave", "cave">>}
GenerationParams == {EmptyDict, [k \in {"trees_chance"} |-> <<"0",".","9">>]}

Descriptors ==
    {[primary_biome |-> b, secondary_features |-> f, style |-> "dnd_fantasy"] :
        b \in Biomes, f \in FeatureLists}
    \cup
    {[primary_biome |-> b, secondary_features |-> f, style |-> "dnd_fantasy",
      generation_params |-> g] :
        b \in Biomes, f \in FeatureLists, g \in GenerationParams}

InitSelect ==
    /\ pc = "select"
    /\ prompt = None
    /\ scene_scale_factor \in 1..MaxScale
    /\ parsed_elements \in Descriptors
    /\ config_files = [local |-> [g \in GinFiles |-> Absent],
                       search |-> [g \in GinFiles |-> Absent]]
    /\ InitRest

ApplySelect ==
    /\ pc = "select"
    /\ plan' = select_infinigen_config(parsed_elements, scene_scale_factor)
    /\ pc' = "selected"
    /\ UNCHANGED <<inputs, seed, children, export_files, disk, result>>

NextSelect == ApplySelect

SpecSelect == InitSelect /\ [][NextSelect]_vars

-----------------------------------------------------------------------------
(* The search of run_infinigen_export applied to every small export directory *)

LocateFiles ==
    {<<EXPORT_SCENE_BLEND, EXPORT_SCENE_USDC>>,
     <<EXPORT_SCENE_BLEND, SCENE_USDC>>,
     <<SCENE_USDC>>,
     <<EXPORT_SCENE_USDC>>,
     <<EXPORT_SCENE_USDC, F("inner", ".txt")>>,
     <<F("a", ".blend"), EXPORT_SCENE_USDC>>,
     <<F("a", ".blend"), SCENE_USDC>>,
     <<F("b", ".blend"), SCENE_USDC>>,
     <<F("c", ".blend")>>,
     <<F("textures", ""), F("mesh", ".usda")>>,
     <<F("top", ".usd")>>,
     <<README_TXT>>}

\* no name is both a file and a directory
LocateLayouts ==
    {fs \in SUBSET LocateFiles :
        /\ Cardinality(fs) <= MaxFiles
        /\ \A f, g \in fs : is_prefix(f, g) => f = g}

InitLocate ==
    /\ pc = "locate"
    /\ prompt = None
    /\ scene_name = <<"m","a","p">>
    /\ scene_scale_factor = 1
    /\ parsed_elements = NoParsed
    /\ plan = NoPlan
    /\ seed = {}
    /\ running = {}
    /\ launched = <<>>
    /\ exit_status = <<>>
    /\ export_files \in LocateLayouts
    /\ fs_dirs = {export_dir(scene_name)}
    /\ config_files = [local |-> [g \in GinFiles |-> Absent],
                       search |-> [g \in GinFiles |-> Absent]]
    /\ fresh_dir = FALSE
    /\ result = Pending
    /\ runs = 0

ApplyLocate ==
    /\ pc = "locate"
    /\ result' \in run_infinigen_export_returns(scene_name, export_files)
    /\ pc' = "located"
    /\ UNCHANGED <<inputs, plan, seed, children, export_files, disk>>

NextLocate == ApplyLocate

SpecLocate == InitLocate /\ [][NextLocate]_vars

-----------------------------------------------------------------------------
(* Properties *)

Failed(i) == exit_status[i] \in {"nonzero", "timeout"}

\* C1: when a coarse, populate or export child process exits non-zero or
\* times out, it is the last child process the call launches (no later stage,
\* no retry), the call can only be about to return, and it returns None.
C1_FailureIsFatal ==
    \A i \in 1..Len(launched) :
        (launched[i].task \in TOOLKIT_TASKS /\ Failed(i)) =>
            /\ i = Len(launched)
            /\ running = {}
            /\ pc \in {launched[i].task, "returned"}
            /\ pc = "returned" => result = ReturnedNone

C1_Witness ==
    /\ pc = "returned"
    /\ result = ReturnedNone
    /\ Len(launched) = 2
    /\ launched[2].task = "populate"
    /\ exit_status = <<"ok", "timeout">>

\* C2: the child processes of a call run one at a time, in the order coarse,
\* populate, export, each launched only after the one before it has ended
\* with success.
C2_Sequential ==
    /\ Cardinality(running) <= 1
    /\ running \subseteq {Len(launched)}
    /\ Len(launched) <= 4
    /\ \A i \in 1..Len(launched) :
          /\ launched[i].task = <<"coarse", "populate", "export", "ls">>[i]
          /\ i > 1 => exit_status[i - 1] = "ok"

C2_Witness ==
    /\ pc = "export"
    /\ running = {3}
    /\ launched[3].task = "export"
    /\ exit_status = <<"ok", "ok", "running">>

\* no file or directory under the export directory is one the search looks for
NoSearchMatch(files) ==
    \A f \in files :
        /\ f[Len(f)].ext \notin {".usd", ".usda", ".usdc"}
        /\ f[1] \notin {F("scene", ".usdc"), F("export_scene", ".usdc")}
        /\ ~(Len(f) >= 2 /\ f[1].ext = ".blend"
               /\ f[2] \in {F("scene", ".usdc"), F("export_scene", ".usdc")})

AllToolkitChildrenSucceeded ==
    /\ Len(launched) >= 3
    /\ \A i \in 1..3 : exit_status[i] = "ok"

\* C3: when coarse, populate and export all succeed and nothing under the
\* export directory matches the search, the call returns the export
\* directory itself.
C3_ExportDirOnMiss ==
    (pc = "returned" /\ AllToolkitChildrenSucceeded /\ NoSearchMatch(export_files)) =>
        result = Returned(Path("INFINIGEN_PATH", "generated_battlemaps", scene_name,
                               "exported_scene", <<>>))

C3_Witness ==
    /\ pc = "returned"
    /\ AllToolkitChildrenSucceeded
    /\ export_files = {<<F("README", ".txt")>>}
    /\ result.kind = "path"
    /\ result.path.rel = <<>>

\* C4: no call of generate_battlemap lets an exception reach its caller:
\* every call that ends has returned a path or None.
C4_NeverRaises ==
    pc = "returned" => result.kind \in {"path", "None"}

SameLetter(a, b) ==
    a = b \/ \E k \in 1..26 : {a, b} = {UpperChars[k], LowerChars[k]}

\* s contains the word, letter case ignored
ContainsIgnoringCase(s, word) ==
    \E i \in 1..Len(s) :
        /\ i + Len(word) - 1 <= Len(s)
        /\ \A j \in 1..Len(word) : SameLetter(s[i + j - 1], word[j])

\* C5: primary_biome is "mountain" when the prompt contains "mountain" in any
\* letter case, otherwise "forest" when it contains "forest", otherwise
\* "generic".
C5_BiomeLastMatchWins ==
    pc = "parsed" =>
        parsed_elements.primary_biome =
            IF ContainsIgnoringCase(prompt, <<"m","o","u","n","t","a","i","n">>)
            THEN "mountain"
            ELSE IF ContainsIgnoringCase(prompt, <<"f","o","r","e","s","t">>)
            THEN "forest"
            ELSE "generic"

C5_Witness ==
    /\ pc = "parsed"
    /\ ContainsIgnoringCase(prompt, <<"f","o","r","e","s","t">>)
    /\ ContainsIgnoringCase(prompt, <<"m","o","u","n","t","a","i","n">>)
    /\ parsed_elements.primary_biome = "mountain"

Occurrences(x, list) == Cardinality({i \in 1..Len(list) : list[i] = x})

\* C6: secondary_features holds "cave" exactly when the prompt contains
\* "cave" in any letter case, and then holds it once.
C6_CaveIffMentioned ==
    pc = "parsed" =>
        Occurrences("cave", parsed_elements.secondary_features) =
            IF ContainsIgnoringCase(prompt, <<"c","a","v","e">>) THEN 1 ELSE 0

C6_Witness ==
    /\ pc = "parsed"
    /\ \E i, j \in 1..Len(prompt) :
          /\ i + 4 <= j
          /\ j + 3 <= Len(prompt)
          /\ \A k \in 1..4 : SameLetter(prompt[i + k - 1], CAVE[k])
          /\ \A k \in 1..4 : SameLetter(prompt[j + k - 1], CAVE[k])
    /\ parsed_elements.secondary_features = <<"cave">>

ForestSelected ==
    pc = "selected" /\ parsed_elements.primary_biome = "forest"

HasOverride(k, v) ==
    \E i \in 1..Len(plan.override_params) : plan.override_params[i] = [key |-> k, val |-> v]

\* C7: for a forest descriptor with the feature "cave" the overrides hold no
\* cave-suppression entry (scene.caves_chance=0.0, Caves.n_lattice=0) and
\* hold the four cave-enabling entries.
C7_NoSuppressionWithCave ==
    (ForestSelected /\ in_list("cave", parsed_elements.secondary_features)) =>
        /\ ~HasOverride("scene.caves_chance", <<"0",".","0">>)
        /\ ~HasOverride("Caves.n_lattice", <<"0">>)
        /\ HasOverride("scene.caves_chance", <<"1",".","0">>)
        /\ HasOverride("Caves.n_lattice", <<"1">>)
        /\ HasOverride("Caves.frequency", <<"0",".","1">>)
        /\ HasOverride("Caves.randomness", <<"0",".","0">>)

DigitValue(c) == (CHOOSE d \in 1..10 : Digits[d] = c) - 1

RECURSIVE Decimal(_)
Decimal(s) == IF s = <<>> THEN 0
              ELSE 10 * Decimal(SubSeq(s, 1, Len(s) - 1)) + DigitValue(s[Len(s)])

\* the number a text such as "12.5" or "0.02" denotes, in hundredths
Hundredths(s) ==
    LET dot == CHOOSE i \in 1..Len(s) : s[i] = "."
        frac == SubSeq(s, dot + 1, Len(s))
    IN  100 * Decimal(SubSeq(s, 1, dot - 1))
        + (IF Len(frac) = 1 THEN 10 * Decimal(frac) ELSE Decimal(frac))

ScaledKeys == {"multi_mountains_params.height", "multi_mountains_params.coverage",
               "multi_mountains_params.slope_height"}

IsUnscaled(p) == p.key \notin ScaledKeys

ValuesOf(k) ==
    {i \in 1..Len(plan.override_params) : plan.override_params[i].key = k}

ScaledTo(k, tenths) ==
    /\ Cardinality(ValuesOf(k)) = 1
    /\ \A i \in ValuesOf(k) :
          Hundredths(plan.override_params[i].val) = tenths * scene_scale_factor

\* C8: for a forest descriptor the overrides hold one height, one coverage
\* and one slope_height entry, worth 50.0, 0.2 and 10.0 times the scale
\* factor, and every other entry is the same for every scale factor.
C8_ScaledGeometry ==
    ForestSelected =>
        /\ ScaledTo("multi_mountains_params.height", 500)
        /\ ScaledTo("multi_mountains_params.coverage", 2)
        /\ ScaledTo("multi_mountains_params.slope_height", 100)
        /\ \A other \in 1..MaxScale :
              SelectSeq(select_infinigen_config(parsed_elements, other).override_params,
                        IsUnscaled)
              = SelectSeq(plan.override_params, IsUnscaled)

C8_Witness ==
    /\ ForestSelected
    /\ scene_scale_factor = 1
    /\ HasOverride("multi_mountains_params.height", <<"5",".","0">>)
    /\ HasOverride("multi_mountains_params.coverage", <<"0",".","0","2">>)
    /\ HasOverride("multi_mountains_params.slope_height", <<"1",".","0">>)

SeedsInUse ==
    seed \cup UNION {launched[i].seed : i \in 1..Len(launched)}

\* C9 as stated: the seed of a call is an integer from 0 to 99999.
C9_SeedBelow100000 ==
    \A sd \in SeedsInUse : 0 <= sd /\ sd <= 99999

\* C9: the seed of a call, which the coarse and populate child processes are
\* given, is an integer from 0 to 100000, both included.
C9_SeedAtMost100000 ==
    /\ \A sd \in SeedsInUse : 0 <= sd /\ sd <= 100000
    /\ \A i \in 1..Len(launched) :
          launched[i].task \in {"coarse", "populate"} => launched[i].seed = seed
    /\ pc \in {"generate", "coarse", "populate", "export", "ls"} => Cardinality(seed) = 1

C9_Witness ==
    /\ pc = "populate"
    /\ seed = {100000}
    /\ launched[2].seed = {100000}

\* C10: the scene directory of a call did not exist before the call: no
\* earlier call created it.
C10_FreshSceneDirectory ==
    pc \in {"generate", "coarse", "populate", "export", "ls"} => fresh_dir

HasOverrideKey(k) ==
    \E i \in 1..Len(plan.override_params) : plan.override_params[i].key = k

\* C11: for a descriptor whose biome is neither "forest" nor "desert" the
\* result is the one for the forest descriptor without features: the same
\* generator, forest_template.gin alone, and the same overrides, with the
\* cave suppression in place and no cave-enabling entry, whatever the
\* features are.
C11_ForestFallback ==
    (pc = "selected" /\ parsed_elements.primary_biome \notin {"forest", "desert"}) =>
        /\ plan = select_infinigen_config(
                      [parsed_elements EXCEPT !.primary_biome = "forest",
                                              !.secondary_features = <<>>],
                      scene_scale_factor)
        /\ plan.generator_module = "infinigen_examples.generate_nature"
        /\ plan.gin_files = <<"forest_template.gin">>
        /\ HasOverride("scene.caves_chance", <<"0",".","0">>)
        /\ HasOverride("Caves.n_lattice", <<"0">>)
        /\ ~HasOverride("scene.caves_chance", <<"1",".","0">>)
        /\ ~HasOverride("Caves.n_lattice", <<"1">>)
        /\ ~HasOverrideKey("Caves.frequency")
        /\ ~HasOverrideKey("Caves.randomness")

C11_Witness ==
    /\ pc = "selected"
    /\ parsed_elements.primary_biome = "mountain"
    /\ in_list("cave", parsed_elements.secondary_features)
    /\ plan.gin_files = <<"forest_template.gin">>
    /\ HasOverride("scene.caves_chance", <<"0",".","0">>)

\* the path, below the export directory, names a file or a directory
PathExists(rel) ==
    \E f \in export_files :
        Len(f) >= Len(rel) /\ \A j \in 1..Len(rel) : f[j] = rel[j]

BlendDirectories ==
    {f[1] : f \in {g \in export_files : Len(g) > 1 /\ g[1].ext = ".blend"}}

\* what each of the five strategies finds, in the order of the claim
Strategy(k) ==
    CASE k = 1 -> {r \in {<<F("export_scene", ".blend"), F("export_scene", ".usdc")>>} :
                      PathExists(r)}
      [] k = 2 -> {r \in {<<F("scene", ".usdc")>>} : PathExists(r)}
      [] k = 3 -> {r \in {<<F("export_scene", ".usdc")>>} : PathExists(r)}
      [] k = 4 -> {<<d, F("export_scene", ".usdc")>> : d \in
                      {x \in BlendDirectories : PathExists(<<x, F("export_scene", ".usdc")>>)}}
                  \cup
                  {<<d, F("scene", ".usdc")>> : d \in
                      {x \in BlendDirectories :
                          /\ PathExists(<<x, F("scene", ".usdc")>>)
                          /\ ~PathExists(<<x, F("export_scene", ".usdc")>>)}}
      [] k = 5 -> {f \in export_files : f[Len(f)].ext \in {".usd", ".usda", ".usdc"}}

MatchingStrategies == {k \in 1..5 : Strategy(k) # {}}

\* C12: after a successful export the path returned is one found by the
\* first of the five strategies that finds anything, and the export
\* directory itself when none does.
C12_FirstStrategyWins ==
    pc = "located" =>
        /\ result.kind = "path"
        /\ [result.path EXCEPT !.rel = <<>>] =
              Path("INFINIGEN_PATH", "generated_battlemaps", scene_name,
                   "exported_scene", <<>>)
        /\ IF MatchingStrategies = {}
           THEN result.path.rel = <<>>
           ELSE result.path.rel \in
                   Strategy(CHOOSE k \in MatchingStrategies :
                                \A other \in MatchingStrategies : k <= other)

C12_Witness ==
    /\ pc = "located"
    /\ MatchingStrategies = {3, 4, 5}
    /\ result.path.rel = <<F("export_scene", ".usdc")>>

\* C13: the populate child process is given the seed, the templates and the
\* overrides of the coarse child process of the same call, each list in the
\* same order, and both its input and its output folder are the output
\* folder of the coarse child process.
C13_PopulateRepeatsCoarse ==
    \A i \in 1..Len(launched) :
        launched[i].task = "populate" =>
            /\ i = 2
            /\ launched[1].task = "coarse"
            /\ launched[i].seed = launched[1].seed
            /\ launched[i].gin_files = launched[1].gin_files
            /\ launched[i].override_params = launched[1].override_params
            /\ launched[i].input_folder = launched[1].output_folder
            /\ launched[i].output_folder = launched[1].output_folder

C13_Witness ==
    /\ pc = "populate"
    /\ Len(launched) = 2
    /\ launched[2].task = "populate"
    /\ launched[2].seed = {100000}
    /\ launched[2].gin_files = <<"forest_template.gin">>
    /\ launched[2].input_folder = raw_folder(scene_name)
    /\ \E i \in 1..Len(launched[2].override_params) :
          launched[2].override_params[i] = [key |-> "Caves.frequency", val |-> <<"0",".","1">>]

\* the template files of the plan are staged: the local copy is the one that
\* was there, or the placeholder if there was none, and the search directory
\* holds the same content under the same name, whatever it held before
Staged(before, after, gin_files) ==
    \A i \in 1..Len(gin_files) :
        LET g == gin_files[i]
        IN  /\ after.local[g] =
                  IF before.local[g] = <<"absent">>
                  THEN <<"# Minimal dummy GIN config for ", g>>
                  ELSE before.local[g]
            /\ after.search[g] = after.local[g]

StagingSteps ==
    /\ pc' = "select" => config_files' = config_files
    /\ (pc = "select" /\ pc' = "generate") =>
          Staged(config_files, config_files', plan'.gin_files)
    /\ (pc = "generate" /\ pc' = "coarse") =>
          /\ config_files' = config_files
          /\ plan' = plan
          /\ launched'[1].task = "coarse"
          /\ launched'[1].gin_files = plan.gin_files
          /\ \A i \in 1..Len(plan.gin_files) :
                /\ config_files.local[plan.gin_files[i]] # <<"absent">>
                /\ config_files.search[plan.gin_files[i]] =
                      config_files.local[plan.gin_files[i]]

\* C14: when the coarse child process is launched, the search directory
\* holds, for every template of the plan, the content of the local copy: the
\* file that existed before the call, unchanged, or the placeholder written
\* because none existed; what the search directory held under that name is
\* overwritten.
C14_StagedAtCoarseLaunch == [][StagingSteps]_vars

C14_Witness ==
    /\ pc = "coarse"
    /\ launched[1].gin_files = <<"forest_template.gin">>
    /\ config_files.local["forest_template.gin"] = <<"real">>
    /\ config_files.search["forest_template.gin"] = <<"real">>

=============================================================================
